---- MODULE Spec2Model ----
(***************************************************************************)
(* Model of auth-handler.go: the request classifier getRequestAuthType,    *)
(* its predicates, isSignV4ReqAuthenticated and authHandler.ServeHTTP.     *)
(*                                                                         *)
(* A behaviour follows one inbound request: Init draws the request and the *)
(* answer the token verifier would give for it; the actions are the        *)
(* operations of the file applied to that request.  authHandler holds no   *)
(* state besides the downstream handler, so requests do not interact.      *)
(***************************************************************************)
EXTENDS Integers, Sequences, FiniteSets, TLC

----------------------------------------------------------------------------
(* Bounds of the model. *)

\* Largest number of values carried under the Authorization key.
MaxAuthValues == 2
\* Largest number of values carried under the Content-Type key.
MaxContentTypeValues == 1

----------------------------------------------------------------------------
(* Constants of the program. *)

signV4Algorithm == "AWS4-HMAC-SHA256"
jwtAlgorithm == "Bearer"

authTypeUnknown == 0
authTypeAnonymous == 1
authTypePresigned == 2
authTypePostPolicy == 3
authTypeSigned == 4
authTypeJWT == 5

StatusUnauthorized == 401

\* S3 error codes used by this file.
None == "None"
InternalError == "InternalError"
SignatureDoesNotMatch == "SignatureDoesNotMatch"
AccessDenied == "AccessDenied"
SignatureVersionNotSupported == "SignatureVersionNotSupported"

----------------------------------------------------------------------------
(* Library functions, by what they compute. *)

\* strings.HasPrefix(s, prefix)
HasPrefix(s, prefix) ==
    /\ Len(s) >= Len(prefix)
    /\ SubSeq(s, 1, Len(prefix)) = prefix

\* strings.Contains(s, substr)
Contains(s, substr) ==
    \E i \in 0..(Len(s) - Len(substr)) : SubSeq(s, i + 1, i + Len(substr)) = substr

\* http.Header.Get(key): the first value stored under key, "" if there is none.
Get(h, key) ==
    IF key \in DOMAIN h /\ Len(h[key]) > 0 THEN h[key][1] ELSE ""

----------------------------------------------------------------------------
(* The requests the model draws from. *)

SeqUpTo(S, n) == UNION {[1..k -> S] : k \in 0..n}

AuthorizationValues ==
    {"AWS4-HMAC-SHA256 Credential=AK", "Bearer abc.def.ghi", "Basic xyz", "bearer abc"}

ContentTypeValues ==
    {"multipart/form-data; boundary=x", "text/plain; multipart/form-data", "application/json"}

Methods == {"GET", "POST", "post"}

QueryKeys == {"X-Amz-Credential", "x-amz-credential"}

\* A header map: a key is present or not, and a present key holds a list of values.
Headers ==
    LET auths == {[present |-> FALSE, values |-> <<>>]} \cup
                 {[present |-> TRUE, values |-> v] :
                      v \in SeqUpTo(AuthorizationValues, MaxAuthValues)}
        ctypes == {[present |-> FALSE, values |-> <<>>]} \cup
                  {[present |-> TRUE, values |-> v] :
                      v \in SeqUpTo(ContentTypeValues, MaxContentTypeValues)}
    IN  {[k \in (IF a.present THEN {"Authorization"} ELSE {}) \cup
                (IF c.present THEN {"Content-Type"} ELSE {})
             |-> IF k = "Authorization" THEN a.values ELSE c.values] :
            a \in auths, c \in ctypes}

\* http.Request, restricted to what the file reads; Query is the key set of r.URL.Query().
Requests ==
    [Method : Methods, Header : Headers, Query : SUBSET QueryKeys]

----------------------------------------------------------------------------
(* Request predicates. *)

isRequestJWT(r) ==
    IF "Authorization" \in DOMAIN r.Header
    THEN IF HasPrefix(Get(r.Header, "Authorization"), jwtAlgorithm) THEN TRUE ELSE FALSE
    ELSE FALSE

isRequestSignatureV4(r) ==
    IF "Authorization" \in DOMAIN r.Header
    THEN IF HasPrefix(Get(r.Header, "Authorization"), signV4Algorithm) THEN TRUE ELSE FALSE
    ELSE FALSE

\* Variant: the query key is matched without regard to case.
isRequestPresignedSignatureV4_AnyCase(r) ==
    IF "X-Amz-Credential" \in r.Query \/ "x-amz-credential" \in r.Query THEN TRUE ELSE FALSE

isRequestPresignedSignatureV4(r) ==
    IF "X-Amz-Credential" \in r.Query THEN TRUE ELSE FALSE

\* Variant: the method is not checked.
isRequestPostPolicySignatureV4_AnyMethod(r) ==
    IF "Content-Type" \in DOMAIN r.Header
    THEN IF Contains(Get(r.Header, "Content-Type"), "multipart/form-data")
         THEN TRUE ELSE FALSE
    ELSE FALSE

isRequestPostPolicySignatureV4(r) ==
    IF "Content-Type" \in DOMAIN r.Header
    THEN IF Contains(Get(r.Header, "Content-Type"), "multipart/form-data") /\ r.Method = "POST"
         THEN TRUE ELSE FALSE
    ELSE FALSE

\* Variant: the post-policy predicate is left out.
isRequestAnonymous_NoPostPolicy(r) ==
    IF \/ isRequestJWT(r)
       \/ isRequestSignatureV4(r)
       \/ isRequestPresignedSignatureV4(r)
    THEN FALSE
    ELSE TRUE

isRequestAnonymous(r) ==
    IF \/ isRequestJWT(r)
       \/ isRequestSignatureV4(r)
       \/ isRequestPresignedSignatureV4(r)
       \/ isRequestPostPolicySignatureV4(r)
    THEN FALSE
    ELSE TRUE

\* Variant: the presigned query is tested before the signature header.
getRequestAuthType_PresignedFirst(r) ==
    IF isRequestPresignedSignatureV4(r) THEN authTypePresigned
    ELSE IF isRequestSignatureV4(r) THEN authTypeSigned
    ELSE IF isRequestJWT(r) THEN authTypeJWT
    ELSE IF isRequestPostPolicySignatureV4(r) THEN authTypePostPolicy
    ELSE IF "Authorization" \notin DOMAIN r.Header THEN authTypeAnonymous
    ELSE authTypeUnknown

\* Variant: the final test on the Authorization key is dropped.
getRequestAuthType_DefaultAnonymous(r) ==
    IF isRequestSignatureV4(r) THEN authTypeSigned
    ELSE IF isRequestPresignedSignatureV4(r) THEN authTypePresigned
    ELSE IF isRequestJWT(r) THEN authTypeJWT
    ELSE IF isRequestPostPolicySignatureV4(r) THEN authTypePostPolicy
    ELSE authTypeAnonymous

\* Variant: the bearer header is tested before the presigned query.
getRequestAuthType_JWTBeforePresigned(r) ==
    IF isRequestSignatureV4(r) THEN authTypeSigned
    ELSE IF isRequestJWT(r) THEN authTypeJWT
    ELSE IF isRequestPresignedSignatureV4(r) THEN authTypePresigned
    ELSE IF isRequestPostPolicySignatureV4(r) THEN authTypePostPolicy
    ELSE IF "Authorization" \notin DOMAIN r.Header THEN authTypeAnonymous
    ELSE authTypeUnknown

getRequestAuthType(r) ==
    IF isRequestSignatureV4(r) THEN authTypeSigned
    ELSE IF isRequestPresignedSignatureV4(r) THEN authTypePresigned
    ELSE IF isRequestJWT(r) THEN authTypeJWT
    ELSE IF isRequestPostPolicySignatureV4(r) THEN authTypePostPolicy
    ELSE IF "Authorization" \notin DOMAIN r.Header THEN authTypeAnonymous
    ELSE authTypeUnknown

----------------------------------------------------------------------------
(* State. *)

VARIABLES
    r,              \* the inbound request
    jwtValid,       \* what isJWTReqAuthenticated(r) answers
    pcServe,        \* "idle" until authHandler.ServeHTTP has returned, then "done"
    authType,       \* the value ServeHTTP switched on
    trace,          \* the calls ServeHTTP made, in order
    statusCode,     \* argument of w.WriteHeader, 0 if it was not called
    errCode,        \* error code handed to writeErrorResponse, None if it was not called
    pcSign,         \* "idle" until isSignV4ReqAuthenticated has returned, then "done"
    signTrace,      \* the calls isSignV4ReqAuthenticated made, in order
    verifierAnswer, \* what the signature verifier returned: [ok, err]
    match,          \* first result of isSignV4ReqAuthenticated
    s3Error,        \* second result of isSignV4ReqAuthenticated
    pcAnon,         \* "idle" until isRequestAnonymous has returned, then "done"
    anon            \* result of isRequestAnonymous

vars == <<r, jwtValid, pcServe, authType, trace, statusCode, errCode,
          pcSign, signTrace, verifierAnswer, match, s3Error, pcAnon, anon>>

serveVars == <<pcServe, authType, trace, statusCode, errCode>>
signVars == <<pcSign, signTrace, verifierAnswer, match, s3Error>>
anonVars == <<pcAnon, anon>>

Init ==
    /\ r \in Requests
    /\ jwtValid \in BOOLEAN
    /\ pcServe = "idle"
    /\ authType = authTypeUnknown
    /\ trace = <<>>
    /\ statusCode = 0
    /\ errCode = None
    /\ pcSign = "idle"
    /\ signTrace = <<>>
    /\ verifierAnswer = [ok |-> FALSE, err |-> FALSE]
    /\ match = FALSE
    /\ s3Error = None
    /\ pcAnon = "idle"
    /\ anon = FALSE

----------------------------------------------------------------------------
(* Operations. *)

\* Variant: the early return after WriteHeader is missing.
ServeHTTP_NoReturnAfter401 ==
    LET t == getRequestAuthType(r) IN
    /\ authType' = t
    /\ pcServe' = "done"
    /\ IF t \in {authTypeAnonymous, authTypePresigned, authTypeSigned, authTypePostPolicy}
       THEN /\ trace' = <<"handler.ServeHTTP">>
            /\ statusCode' = 0
            /\ errCode' = None
       ELSE IF t = authTypeJWT
       THEN IF ~jwtValid
            THEN /\ trace' = <<"isJWTReqAuthenticated", "WriteHeader", "handler.ServeHTTP">>
                 /\ statusCode' = StatusUnauthorized
                 /\ errCode' = None
            ELSE /\ trace' = <<"isJWTReqAuthenticated", "handler.ServeHTTP">>
                 /\ statusCode' = 0
                 /\ errCode' = None
       ELSE /\ trace' = <<"writeErrorResponse">>
            /\ statusCode' = 0
            /\ errCode' = SignatureVersionNotSupported
    /\ UNCHANGED <<r, jwtValid, signVars, anonVars>>

\* Variant: the default case is missing, so an unknown type falls to the handler.
ServeHTTP_NoDefault ==
    LET t == getRequestAuthType(r) IN
    /\ authType' = t
    /\ pcServe' = "done"
    /\ IF t = authTypeJWT
       THEN IF ~jwtValid
            THEN /\ trace' = <<"isJWTReqAuthenticated", "WriteHeader">>
                 /\ statusCode' = StatusUnauthorized
                 /\ errCode' = None
            ELSE /\ trace' = <<"isJWTReqAuthenticated", "handler.ServeHTTP">>
                 /\ statusCode' = 0
                 /\ errCode' = None
       ELSE /\ trace' = <<"handler.ServeHTTP">>
            /\ statusCode' = 0
            /\ errCode' = None
    /\ UNCHANGED <<r, jwtValid, signVars, anonVars>>

\* Variant: the token check is applied to every type but unknown.
ServeHTTP_TokenCheckAll ==
    LET t == getRequestAuthType(r) IN
    /\ authType' = t
    /\ pcServe' = "done"
    /\ IF t # authTypeUnknown
       THEN IF ~jwtValid
            THEN /\ trace' = <<"isJWTReqAuthenticated", "WriteHeader">>
                 /\ statusCode' = StatusUnauthorized
                 /\ errCode' = None
            ELSE /\ trace' = <<"isJWTReqAuthenticated", "handler.ServeHTTP">>
                 /\ statusCode' = 0
                 /\ errCode' = None
       ELSE /\ trace' = <<"writeErrorResponse">>
            /\ statusCode' = 0
            /\ errCode' = SignatureVersionNotSupported
    /\ UNCHANGED <<r, jwtValid, signVars, anonVars>>

\* authHandler.ServeHTTP(w, r), with a fresh ResponseWriter.
ServeHTTP ==
    LET t == getRequestAuthType(r) IN
    /\ authType' = t
    /\ pcServe' = "done"
    /\ IF t \in {authTypeAnonymous, authTypePresigned, authTypeSigned, authTypePostPolicy}
       THEN /\ trace' = <<"handler.ServeHTTP">>
            /\ statusCode' = 0
            /\ errCode' = None
       ELSE IF t = authTypeJWT
       THEN IF ~jwtValid
            THEN /\ trace' = <<"isJWTReqAuthenticated", "WriteHeader">>
                 /\ statusCode' = StatusUnauthorized
                 /\ errCode' = None
            ELSE /\ trace' = <<"isJWTReqAuthenticated", "handler.ServeHTTP">>
                 /\ statusCode' = 0
                 /\ errCode' = None
       ELSE /\ trace' = <<"writeErrorResponse">>
            /\ statusCode' = 0
            /\ errCode' = SignatureVersionNotSupported
    /\ UNCHANGED <<r, jwtValid, signVars, anonVars>>

\* Variant: the verifier's error is not looked at.
IsSignV4ReqAuthenticated_ErrIgnored ==
    \E ok \in BOOLEAN, err \in BOOLEAN :
        /\ pcSign' = "done"
        /\ IF isRequestSignatureV4(r)
           THEN /\ signTrace' = <<"SetHTTPRequestToVerify", "DoesSignatureMatch">>
                /\ verifierAnswer' = [ok |-> ok, err |-> err]
                /\ IF ~ok
                   THEN match' = FALSE /\ s3Error' = SignatureDoesNotMatch
                   ELSE match' = ok /\ s3Error' = None
           ELSE IF isRequestPresignedSignatureV4(r)
           THEN /\ signTrace' = <<"SetHTTPRequestToVerify", "DoesPresignedSignatureMatch">>
                /\ verifierAnswer' = [ok |-> ok, err |-> err]
                /\ IF ~ok
                   THEN match' = FALSE /\ s3Error' = SignatureDoesNotMatch
                   ELSE match' = ok /\ s3Error' = None
           ELSE /\ signTrace' = <<"SetHTTPRequestToVerify">>
                /\ verifierAnswer' = [ok |-> FALSE, err |-> FALSE]
                /\ match' = FALSE
                /\ s3Error' = AccessDenied
        /\ UNCHANGED <<r, jwtValid, serveVars, anonVars>>

\* isSignV4ReqAuthenticated(sign, r); the verifier returns (ok, err), err being
\* nil (FALSE) or an error (TRUE).
IsSignV4ReqAuthenticated ==
    \E ok \in BOOLEAN, err \in BOOLEAN :
        /\ pcSign' = "done"
        /\ IF isRequestSignatureV4(r)
           THEN /\ signTrace' = <<"SetHTTPRequestToVerify", "DoesSignatureMatch">>
                /\ verifierAnswer' = [ok |-> ok, err |-> err]
                /\ IF err
                   THEN match' = FALSE /\ s3Error' = InternalError
                   ELSE IF ~ok
                   THEN match' = FALSE /\ s3Error' = SignatureDoesNotMatch
                   ELSE match' = ok /\ s3Error' = None
           ELSE IF isRequestPresignedSignatureV4(r)
           THEN /\ signTrace' = <<"SetHTTPRequestToVerify", "DoesPresignedSignatureMatch">>
                /\ verifierAnswer' = [ok |-> ok, err |-> err]
                /\ IF err
                   THEN match' = FALSE /\ s3Error' = InternalError
                   ELSE IF ~ok
                   THEN match' = FALSE /\ s3Error' = SignatureDoesNotMatch
                   ELSE match' = ok /\ s3Error' = None
           ELSE /\ signTrace' = <<"SetHTTPRequestToVerify">>
                /\ verifierAnswer' = [ok |-> FALSE, err |-> FALSE]
                /\ match' = FALSE
                /\ s3Error' = AccessDenied
        /\ UNCHANGED <<r, jwtValid, serveVars, anonVars>>

\* A call of isRequestAnonymous(r).
IsRequestAnonymous ==
    /\ pcAnon' = "done"
    /\ anon' = isRequestAnonymous(r)
    /\ UNCHANGED <<r, jwtValid, serveVars, signVars>>

Next ==
    \/ ServeHTTP
    \/ IsSignV4ReqAuthenticated
    \/ IsRequestAnonymous

Spec == Init /\ [][Next]_vars

----------------------------------------------------------------------------
(* Properties.  The conditions on the request are written out on the       *)
(* header map, the query and the method, not through the predicates above. *)

\* C1 - Token gate: once ServeHTTP has returned for a request classified as
\* authTypeJWT, the downstream handler was invoked exactly once if the token
\* verifier answers true; if it answers false, status 401 was written and the
\* downstream handler was not invoked.
TokenGate ==
    (pcServe = "done" /\ authType = authTypeJWT) =>
        LET handlerCalls == Cardinality({i \in DOMAIN trace : trace[i] = "handler.ServeHTTP"})
        IN  /\ jwtValid => handlerCalls = 1
            /\ ~jwtValid => (statusCode = 401 /\ handlerCalls = 0)

TokenGateWitness ==
    /\ pcServe = "done"
    /\ authType = authTypeJWT
    /\ ~jwtValid
    /\ statusCode = 401

\* C2 - Unknown rejection: once ServeHTTP has returned for a request classified
\* as Unknown, it has called neither the downstream handler nor any verifier;
\* its only call is the rejection with SignatureVersionNotSupported.
UnknownRejection ==
    (pcServe = "done" /\ authType = authTypeUnknown) =>
        /\ trace = <<"writeErrorResponse">>
        /\ errCode = "SignatureVersionNotSupported"
        /\ \A i \in DOMAIN trace :
               trace[i] \notin {"handler.ServeHTTP", "isJWTReqAuthenticated",
                                "DoesSignatureMatch", "DoesPresignedSignatureMatch"}

UnknownRejectionWitness ==
    /\ pcServe = "done"
    /\ authType = authTypeUnknown
    /\ "Authorization" \in DOMAIN r.Header
    /\ errCode = "SignatureVersionNotSupported"

\* C3 - Pass-through: once ServeHTTP has returned for a request classified as
\* Anonymous, Presigned, Signed or PostPolicy, its only call is one invocation
\* of the downstream handler, and no rejection was written, whatever the token
\* verifier answers.
PassThrough ==
    (/\ pcServe = "done"
     /\ authType \in {authTypeAnonymous, authTypePresigned, authTypeSigned, authTypePostPolicy}) =>
        /\ Cardinality({i \in DOMAIN trace : trace[i] = "handler.ServeHTTP"}) = 1
        /\ Len(trace) = 1
        /\ statusCode = 0
        /\ errCode = "None"

PassThroughWitness ==
    /\ pcServe = "done"
    /\ authType = authTypePresigned
    /\ ~jwtValid
    /\ trace = <<"handler.ServeHTTP">>

\* C4 - Classification order: the type ServeHTTP got from getRequestAuthType is
\* that of the first rule that matches, in the order V4 signature header,
\* X-Amz-Credential query parameter, Bearer header, POST with a
\* multipart/form-data Content-Type, Authorization header absent, otherwise
\* Unknown.
ClassificationOrder ==
    pcServe = "done" =>
        LET hasAuth == "Authorization" \in DOMAIN r.Header
            authValue == IF hasAuth /\ r.Header["Authorization"] # <<>>
                         THEN r.Header["Authorization"][1] ELSE ""
            v4 == hasAuth /\ HasPrefix(authValue, "AWS4-HMAC-SHA256")
            presigned == "X-Amz-Credential" \in r.Query
            bearer == hasAuth /\ HasPrefix(authValue, "Bearer")
            form == /\ r.Method = "POST"
                    /\ "Content-Type" \in DOMAIN r.Header
                    /\ r.Header["Content-Type"] # <<>>
                    /\ Contains(r.Header["Content-Type"][1], "multipart/form-data")
        IN  /\ authType \in 0..5
            /\ v4 => authType = authTypeSigned
            /\ (~v4 /\ presigned) => authType = authTypePresigned
            /\ (~v4 /\ ~presigned /\ bearer) => authType = authTypeJWT
            /\ (~v4 /\ ~presigned /\ ~bearer /\ form) => authType = authTypePostPolicy
            /\ (~v4 /\ ~presigned /\ ~bearer /\ ~form /\ ~hasAuth) => authType = authTypeAnonymous
            /\ (~v4 /\ ~presigned /\ ~bearer /\ ~form /\ hasAuth) => authType = authTypeUnknown

ClassificationOrderWitness ==
    /\ pcServe = "done"
    /\ Get(r.Header, "Authorization") = "AWS4-HMAC-SHA256 Credential=AK"
    /\ "X-Amz-Credential" \in r.Query
    /\ authType = authTypeSigned

\* C5 - A request that carries an Authorization header, of any value, is never
\* classified as Anonymous.
AuthorizationNeverAnonymous ==
    (pcServe = "done" /\ "Authorization" \in DOMAIN r.Header) =>
        authType # authTypeAnonymous

AuthorizationNeverAnonymousWitness ==
    /\ pcServe = "done"
    /\ "Authorization" \in DOMAIN r.Header
    /\ Get(r.Header, "Authorization") = "Basic xyz"
    /\ "Content-Type" \notin DOMAIN r.Header
    /\ r.Query = {}
    /\ authType = authTypeUnknown

\* C6, as stated - Anonymous agreement: a request without an Authorization
\* header that is not a POST with a multipart/form-data Content-Type is
\* classified as Anonymous.
AnonymousAgreementAsStated ==
    (/\ pcServe = "done"
     /\ "Authorization" \notin DOMAIN r.Header
     /\ ~(/\ r.Method = "POST"
          /\ "Content-Type" \in DOMAIN r.Header
          /\ r.Header["Content-Type"] # <<>>
          /\ Contains(r.Header["Content-Type"][1], "multipart/form-data"))) =>
        authType = authTypeAnonymous

\* C6, amended - Anonymous agreement: a request without an Authorization
\* header and without an X-Amz-Credential query parameter that is not a POST
\* with a multipart/form-data Content-Type is classified as Anonymous.
AnonymousAgreement ==
    (/\ pcServe = "done"
     /\ "Authorization" \notin DOMAIN r.Header
     /\ "X-Amz-Credential" \notin r.Query
     /\ ~(/\ r.Method = "POST"
          /\ "Content-Type" \in DOMAIN r.Header
          /\ r.Header["Content-Type"] # <<>>
          /\ Contains(r.Header["Content-Type"][1], "multipart/form-data"))) =>
        authType = authTypeAnonymous

AnonymousAgreementWitness ==
    /\ pcServe = "done"
    /\ "Authorization" \notin DOMAIN r.Header
    /\ r.Query = {"x-amz-credential"}
    /\ r.Method = "post"
    /\ Get(r.Header, "Content-Type") = "multipart/form-data; boundary=x"
    /\ authType = authTypeAnonymous

\* C7, as stated - Unknown fallback: a request whose Authorization header is
\* present with a value starting with neither AWS4-HMAC-SHA256 nor Bearer, and
\* without an X-Amz-Credential query parameter, is classified as Unknown,
\* whatever its method and Content-Type.
UnknownFallbackAsStated ==
    (/\ pcServe = "done"
     /\ "Authorization" \in DOMAIN r.Header
     /\ LET authValue == IF r.Header["Authorization"] # <<>>
                         THEN r.Header["Authorization"][1] ELSE ""
        IN  ~HasPrefix(authValue, "AWS4-HMAC-SHA256") /\ ~HasPrefix(authValue, "Bearer")
     /\ "X-Amz-Credential" \notin r.Query) =>
        authType = authTypeUnknown

\* C7, amended - Unknown fallback: such a request is classified as Unknown
\* unless it is a POST with a multipart/form-data Content-Type.
UnknownFallback ==
    (/\ pcServe = "done"
     /\ "Authorization" \in DOMAIN r.Header
     /\ LET authValue == IF r.Header["Authorization"] # <<>>
                         THEN r.Header["Authorization"][1] ELSE ""
        IN  ~HasPrefix(authValue, "AWS4-HMAC-SHA256") /\ ~HasPrefix(authValue, "Bearer")
     /\ "X-Amz-Credential" \notin r.Query
     /\ ~(/\ r.Method = "POST"
          /\ "Content-Type" \in DOMAIN r.Header
          /\ r.Header["Content-Type"] # <<>>
          /\ Contains(r.Header["Content-Type"][1], "multipart/form-data"))) =>
        authType = authTypeUnknown

UnknownFallbackWitness ==
    /\ pcServe = "done"
    /\ Get(r.Header, "Authorization") = "Basic xyz"
    /\ "Authorization" \in DOMAIN r.Header
    /\ r.Query = {}
    /\ r.Method = "GET"
    /\ Get(r.Header, "Content-Type") = "multipart/form-data; boundary=x"
    /\ authType = authTypeUnknown

\* C8 - Companion predicate agreement: for a request without an Authorization
\* header, isRequestAnonymous answers true exactly when getRequestAuthType
\* answers Anonymous.
CompanionAgreement ==
    (/\ pcAnon = "done"
     /\ pcServe = "done"
     /\ "Authorization" \notin DOMAIN r.Header) =>
        (anon <=> authType = authTypeAnonymous)

CompanionAgreementWitness ==
    /\ pcAnon = "done"
    /\ pcServe = "done"
    /\ "Authorization" \notin DOMAIN r.Header
    /\ r.Method = "POST"
    /\ Get(r.Header, "Content-Type") = "text/plain; multipart/form-data"
    /\ ~anon
    /\ authType = authTypePostPolicy

\* C9 - Verification outcome: once isSignV4ReqAuthenticated has returned,
\* match = false goes with an error code other than None and match = true with
\* None; a verifier error gives (false, InternalError), a mismatch without
\* error (false, SignatureDoesNotMatch), a request neither header-signed nor
\* presigned (false, AccessDenied) with no match call; and for a request both
\* header-signed and presigned the header check is the one called.
VerificationOutcome ==
    pcSign = "done" =>
        LET hasAuth == "Authorization" \in DOMAIN r.Header
            authValue == IF hasAuth /\ r.Header["Authorization"] # <<>>
                         THEN r.Header["Authorization"][1] ELSE ""
            signed == hasAuth /\ HasPrefix(authValue, "AWS4-HMAC-SHA256")
            presigned == "X-Amz-Credential" \in r.Query
            called(c) == \E i \in DOMAIN signTrace : signTrace[i] = c
        IN  /\ ~match => s3Error # "None"
            /\ match => s3Error = "None"
            /\ ((signed \/ presigned) /\ verifierAnswer.err) =>
                   (~match /\ s3Error = "InternalError")
            /\ ((signed \/ presigned) /\ ~verifierAnswer.err /\ ~verifierAnswer.ok) =>
                   (~match /\ s3Error = "SignatureDoesNotMatch")
            /\ ((signed \/ presigned) /\ ~verifierAnswer.err /\ verifierAnswer.ok) =>
                   (match /\ s3Error = "None")
            /\ (~signed /\ ~presigned) =>
                   /\ ~match /\ s3Error = "AccessDenied"
                   /\ ~called("DoesSignatureMatch")
                   /\ ~called("DoesPresignedSignatureMatch")
            /\ signed =>
                   (called("DoesSignatureMatch") /\ ~called("DoesPresignedSignatureMatch"))
            /\ (~signed /\ presigned) =>
                   (called("DoesPresignedSignatureMatch") /\ ~called("DoesSignatureMatch"))

VerificationOutcomeWitness ==
    /\ pcSign = "done"
    /\ Get(r.Header, "Authorization") = "AWS4-HMAC-SHA256 Credential=AK"
    /\ "X-Amz-Credential" \in r.Query
    /\ verifierAnswer.ok
    /\ verifierAnswer.err
    /\ ~match
    /\ s3Error = "InternalError"

\* C10 - ServeHTTP calls the token verifier exactly when the request has an
\* Authorization header starting with Bearer and no X-Amz-Credential query
\* parameter; a request with a Bearer header and an X-Amz-Credential query
\* parameter is classified Presigned and handed to the downstream handler
\* without the token verifier being called.
TokenVerifierCalledIff ==
    pcServe = "done" =>
        LET hasAuth == "Authorization" \in DOMAIN r.Header
            authValue == IF hasAuth /\ r.Header["Authorization"] # <<>>
                         THEN r.Header["Authorization"][1] ELSE ""
            bearer == hasAuth /\ HasPrefix(authValue, "Bearer")
            presigned == "X-Amz-Credential" \in r.Query
            verifierCalled == \E i \in DOMAIN trace : trace[i] = "isJWTReqAuthenticated"
        IN  /\ verifierCalled <=> (bearer /\ ~presigned)
            /\ (bearer /\ presigned) =>
                   (authType = authTypePresigned /\ trace = <<"handler.ServeHTTP">>)

TokenVerifierCalledIffWitness ==
    /\ pcServe = "done"
    /\ Get(r.Header, "Authorization") = "Bearer abc.def.ghi"
    /\ "X-Amz-Credential" \in r.Query
    /\ ~jwtValid
    /\ authType = authTypePresigned
    /\ trace = <<"handler.ServeHTTP">>

====
